---------------------------- MODULE Spec2Model ----------------------------
(***************************************************************************)
(* A model of the phishing detector's deterministic core:                  *)
(*   url_features.extract_features     raw URL string  -> SignalMap        *)
(*   html_parser.analyze_html_for_forms  fetched page  -> SignalMap        *)
(*   heuristic_scorer.score_features   SignalMap       -> Verdict          *)
(*   api.analyze_url                   the pipeline that chains them       *)
(*                                                                         *)
(* Strings are TLA+ strings, lists are sequences, dicts are functions      *)
(* whose DOMAIN is the set of keys present.  Python floats are binary64    *)
(* values and are modelled exactly (section "binary64 arithmetic").        *)
(***************************************************************************)
EXTENDS Integers, Sequences, FiniteSets, TLC

VARIABLES
    pc,          \* position of the caller: which call has been made so far
    hashOrder,   \* iteration order of the set BRAND_KEYWORDS in this interpreter
    rawUrl,      \* the raw URL string handed to extract_features / analyze_url
    page,        \* what the HTTP fetch of analyze_html_for_forms meets
    features,    \* the SignalMap (a dict: keys present -> values)
    locals,      \* score, cat_scores, scaled of the last score_features call at its return
    verdicts     \* the Verdicts returned so far, oldest first

vars == <<pc, hashOrder, rawUrl, page, features, locals, verdicts>>

-----------------------------------------------------------------------------
(***************************************************************************)
(* binary64 arithmetic.                                                    *)
(*                                                                         *)
(* Every float of the scorer is a decimal with at most 5 places, off by    *)
(* the rounding of binary64.  A float x is held as [a, n, e] with          *)
(*        x = n / 10^a  +  e / (5^a * 2^62)      (n, e integers),          *)
(* which is exact for every binary64 in [2^-6, 8) (a multiple of 2^-58):   *)
(* n / 10^a is the decimal the program text means and e is the rounding    *)
(* residual.  RN rounds an exact value to the nearest binary64, ties to    *)
(* even, as the hardware does for a literal, for + and for *.              *)
(***************************************************************************)
Dbl(a, n, e) == [a |-> a, n |-> n, e |-> e]

Sign(i) == IF i > 0 THEN 1 ELSE IF i < 0 THEN -1 ELSE 0

RECURSIVE PowMod(_, _, _)
PowMod(b, q, m) == IF q = 0 THEN 1 % m ELSE (b * PowMod(b, q - 1, m)) % m

\* 2^g modulo m, for m <= 3125, without leaving 32 bits
Pow2Mod(g, m) == (PowMod(32768 % m, g \div 15, m) * ((2 ^ (g % 15)) % m)) % m

\* K such that the binary64 ulp at the value n/10^a (+ a residual of sign s) is
\* 2^(K-62): the value lies in [2^j, 2^(j+1)) with j = K - 10, -6 <= j <= 2
UlpExp(a, n, s) ==
    3 + Cardinality({i \in 0..8 :
            \/ n * 64 > (10 ^ a) * (2 ^ i)
            \/ n * 64 = (10 ^ a) * (2 ^ i) /\ s >= 0})

\* (n * 2^(g) + e) modulo 5^a * 2^K, for g >= K
RemPow(a, n, g, e, K) ==
    ((2 ^ K) * (((n % (5 ^ a)) * Pow2Mod(g - K, 5 ^ a)) % (5 ^ a)) + e)
        % ((5 ^ a) * (2 ^ K))

\* the value rounded down or up to a multiple of the ulp: M = 5^a 2^K, r is the
\* part below the ulp and odd tells whether the multiple below is an odd one
RNWith(a, n, e, M, r, odd) ==
    IF 2 * r < M \/ (2 * r = M /\ ~odd) THEN Dbl(a, n, e - r) ELSE Dbl(a, n, e + M - r)

RNAt(a, n, e, K) ==
    RNWith(a, n, e, (5 ^ a) * (2 ^ K), RemPow(a, n, 62 - a, e, K),
           RemPow(a, n, 62 - a, e, K + 1) >= (5 ^ a) * (2 ^ K))

\* round n/10^a + e/(5^a 2^62) to the nearest binary64, ties to even
RN(a, n, e) ==
    IF n = 0 /\ e = 0 THEN Dbl(a, 0, 0) ELSE RNAt(a, n, e, UlpExp(a, n, Sign(e)))

\* a float literal of the program text: n / 10^a (tabulated for the short ones)
LitTab ==
    [a \in 1..3 |-> [n \in 0..(IF a = 1 THEN 70 ELSE IF a = 2 THEN 200 ELSE 1000) |->
                        RN(a, n, 0)]]

Lit(a, n) == IF a <= 3 /\ n \in DOMAIN LitTab[a] THEN LitTab[a][n] ELSE RN(a, n, 0)

\* the same float written at a finer decimal scale
Rescale(x, a) == Dbl(a, x.n * (10 ^ (a - x.a)), x.e * (5 ^ (a - x.a)))

MaxOf(i, j) == IF i >= j THEN i ELSE j

FAddAt(x, y, a) ==
    RN(a, Rescale(x, a).n + Rescale(y, a).n, Rescale(x, a).e + Rescale(y, a).e)

\* x + y
FAdd(x, y) == FAddAt(x, y, MaxOf(x.a, y.a))

\* x * y: the exact product is
\*   (n 2^(124-a) + Q 2^(62-mx) + D) / (5^a 2^124),  a = a1 + a2,  n = n1 n2;
\* w is the part of n 2^(62-a+mx) + Q below the ulp M = 5^a 2^K
FMulWith(a, mx, n, Q, D, M, w, odd) ==
    Dbl(a, n,
        (Q - w + (IF \/ 2 * w > M
                     \/ 2 * w = M /\ D > 0
                     \/ 2 * w = M /\ D = 0 /\ odd
                  THEN M ELSE 0)) \div (2 ^ mx))

FMulAt(a, mx, n, Q, D, K) ==
    FMulWith(a, mx, n, Q, D, (5 ^ a) * (2 ^ K), RemPow(a, n, 62 - a + mx, Q, K),
             RemPow(a, n, 62 - a + mx, Q, K + 1) >= (5 ^ a) * (2 ^ K))

FMulParts(a, mx, n, Q, D) ==
    FMulAt(a, mx, n, Q, D, UlpExp(a, n, IF Q # 0 THEN Sign(Q) ELSE Sign(D)) + mx)

FMulScaled(x, y, mx) ==
    FMulParts(x.a + y.a, mx, x.n * y.n,
              x.n * y.e * (2 ^ (mx - x.a)) + y.n * x.e * (2 ^ (mx - y.a)), x.e * y.e)

FMul(x, y) ==
    IF (x.n = 0 /\ x.e = 0) \/ (y.n = 0 /\ y.e = 0) THEN Dbl(x.a + y.a, 0, 0)
    ELSE FMulScaled(x, y, MaxOf(x.a, y.a))

\* x / 2.0 (exact in binary64)
FHalf(x) == Dbl(x.a + 1, x.n * 5, (x.e * 5) \div 2)

\* comparisons of floats
FLessAt(u, v) == u.n < v.n \/ (u.n = v.n /\ u.e < v.e)

FLess(x, y) == FLessAt(Rescale(x, MaxOf(x.a, y.a)), Rescale(y, MaxOf(x.a, y.a)))

FGeq(x, y) == ~FLess(x, y)
FGt(x, y) == FLess(y, x)
FMin(x, y) == IF FLess(y, x) THEN y ELSE x      \* min(x, y)
FMax(x, y) == IF FLess(x, y) THEN y ELSE x      \* max(x, y)

\* round(x, 3): the float nearest to the decimal with 3 places nearest to x,
\* ties of the exact binary value to the even digit
Round3At(x, unit) ==
    IF \/ 2 * (x.n % unit) > unit
       \/ 2 * (x.n % unit) = unit /\ x.e > 0
       \/ 2 * (x.n % unit) = unit /\ x.e = 0 /\ (x.n \div unit) % 2 = 1
    THEN Lit(3, x.n \div unit + 1)
    ELSE Lit(3, x.n \div unit)

Round3(x) ==
    IF x.a <= 3 THEN Lit(3, x.n * (10 ^ (3 - x.a))) ELSE Round3At(x, 10 ^ (x.a - 3))

-----------------------------------------------------------------------------
(***************************************************************************)
(* str and list helpers (Python's str methods on TLA+ strings)             *)
(***************************************************************************)
Range(seq) == {seq[i] : i \in 1..Len(seq)}

Chr(s, i) == SubSeq(s, i, i)                       \* s[i-1]

StartsWith(s, p) == Len(p) <= Len(s) /\ SubSeq(s, 1, Len(p)) = p

EndsWith(s, p) == Len(p) <= Len(s) /\ SubSeq(s, Len(s) - Len(p) + 1, Len(s)) = p

\* p in s, for a non-empty p
Contains(s, p) == \E i \in 1..(Len(s) - Len(p) + 1) : SubSeq(s, i, i + Len(p) - 1) = p

UpperCase == "ABCDEFGHIJKLMNOPQRSTUVWXYZ"
LowerCase == "abcdefghijklmnopqrstuvwxyz"

LowerTab == [c \in {Chr(UpperCase, i) : i \in 1..26} |->
               Chr(LowerCase, CHOOSE i \in 1..26 : Chr(UpperCase, i) = c)]

LowerChr(c) == IF c \in DOMAIN LowerTab THEN LowerTab[c] ELSE c

\* s[lo-1:hi].lower(), by halves
RECURSIVE LowerRange(_, _, _)
LowerRange(s, lo, hi) ==
    IF lo > hi THEN ""
    ELSE IF lo = hi THEN LowerChr(Chr(s, lo))
    ELSE LowerRange(s, lo, (lo + hi) \div 2) \o LowerRange(s, (lo + hi) \div 2 + 1, hi)

Lower(s) == LowerRange(s, 1, Len(s))               \* s.lower()

RECURSIVE Join(_, _)
Join(sep, seq) ==                                   \* sep.join(seq)
    IF Len(seq) = 0 THEN ""
    ELSE IF Len(seq) = 1 THEN seq[1]
    ELSE seq[1] \o sep \o Join(sep, Tail(seq))

\* features.get(key, default)
Get(f, key, default) == IF key \in DOMAIN f THEN f[key] ELSE default

\* a missing flag read as set
GetFlagSet(f, key) == Get(f, key, TRUE)

\* features.get(key, False), and features.get(key) where only its truth is used
GetFlag(f, key) == Get(f, key, FALSE)

\* Python truthiness of an int / a float
Truthy(i) == i # 0
FTruthy(x) == ~(x.n = 0 /\ x.e = 0)

-----------------------------------------------------------------------------
(***************************************************************************)
(* heuristic_scorer.py                                                     *)
(***************************************************************************)
CATEGORIES == <<"credential_theft", "card_theft", "info_gathering", "malware">>

\* The members of the set literal BRAND_KEYWORDS, in the order of the program
\* text.  A Python set has no order of its own: hashOrder holds the order in
\* which this interpreter iterates it.
BRAND_KEYWORDS ==
    <<"paypal", "google", "microsoft", "bank", "visa", "mastercard", "apple",
      "facebook", "instagram">>

\* the reason put in front instead of appended
AddReasonFront(reasons, reason) ==
    IF reason \in Range(reasons) THEN reasons ELSE <<reason>> \o reasons

\* _add_reason(reasons, reason)
AddReason(reasons, reason) ==
    IF reason \in Range(reasons) THEN reasons ELSE Append(reasons, reason)

\* one guarded rule: score += delta; _add_reason(reasons, reason)
Rule(acc, fires, delta, reason) ==
    IF fires
    THEN [acc EXCEPT !.score = FAdd(@, delta), !.reasons = AddReason(@, reason)]
    ELSE acc

\* cat_scores[c] += delta, under the same guard
Cat(acc, fires, c, delta) ==
    IF fires THEN [acc EXCEPT !.cat[c] = FAdd(@, delta)] ELSE acc

\* sorted(kw & words): words is given in sorted order
SortedMatch(kw, words) == SelectSeq(words, LAMBDA w : w \in kw)

\* the brand the loop over BRAND_KEYWORDS stops at ("" when it runs to the end)
RECURSIVE BrandScan(_, _, _)
BrandScan(host, order, i) ==
    IF i > Len(order) THEN ""
    ELSE IF Contains(host, order[i]) /\ ~StartsWith(host, order[i] \o ".")
         THEN order[i]
         ELSE BrandScan(host, order, i + 1)

SuspiciousTlds == {"zip", "xyz", "top", "gq", "tk", "ml"}

\* score = 0.0; reasons = []; cat_scores = {c: 0.0 for c in CATEGORIES}
Zeroed == [score |-> Lit(1, 0), reasons |-> <<>>, cat |-> [c \in Range(CATEGORIES) |-> Lit(1, 0)]]

\* base signals
BaseSignals(acc, f) ==
    LET host_entropy == Get(f, "host_entropy", Lit(1, 0))
        path_entropy == Get(f, "path_entropy", Lit(1, 0))
        a1 == Rule(acc, GetFlag(f, "suspicious_tld"), Lit(2, 22), "Suspicious top-level domain")
        a2 == Rule(a1, GetFlag(f, "has_ip"), Lit(2, 30),
                   "URL uses an IP address instead of domain")
        a3 == Rule(a2, Get(f, "url_length", 0) > 80, Lit(2, 12), "Unusually long URL")
        a4 == Rule(a3, Get(f, "special_char_count", 0) > 5, Lit(2, 10),
                   "Many special characters in URL")
        a5 == Rule(a4, FTruthy(host_entropy) /\ FGt(host_entropy, Lit(1, 32)), Lit(2, 9),
                   "High entropy in host (looks random/auto-generated)")
    IN  Rule(a5, FTruthy(path_entropy) /\ FGt(path_entropy, Lit(1, 40)), Lit(2, 6),
             "High entropy in path (suspicious)")

\* HTML form signals
FormSignals(acc, f) ==
    LET a7 == Cat(Rule(acc, GetFlag(f, "has_password_input"), Lit(2, 35),
                       "Page contains password input (login form detected)"),
                  GetFlag(f, "has_password_input"), "credential_theft", Lit(1, 12))
        a8 == Cat(Rule(a7, GetFlag(f, "has_card_inputs"), Lit(2, 45),
                       "Page contains card-related input fields"),
                  GetFlag(f, "has_card_inputs"), "card_theft", Lit(1, 14))
    IN  Cat(Rule(a8, GetFlag(f, "external_form_action"), Lit(2, 25),
                 "Form submits to a different domain"),
            GetFlag(f, "external_form_action"), "credential_theft", Lit(1, 8))

\* keyword signals, for kw = set(k.lower() for k in keywords) and the lowered url
KeywordRules(acc, kw, url) ==
    LET k1 == kw \cap {"login", "secure", "verify", "account"} # {}
        a10 == Cat(Rule(acc, k1, Lit(2, 30),
                        "Suspicious keywords in URL: " \o
                        Join(", ", SortedMatch(kw, <<"account", "login", "secure", "verify">>))),
                   k1, "credential_theft", Lit(1, 10))
        k2 == kw \cap {"card", "billing", "payment"} # {}
        a11 == Cat(Rule(a10, k2, Lit(2, 30),
                        "Payment/card-related keywords: " \o
                        Join(", ", SortedMatch(kw, <<"billing", "card", "payment">>))),
                   k2, "card_theft", Lit(1, 10))
        k3 == kw \cap {"survey", "free", "claim"} # {}
        a12 == Cat(Rule(a11, k3, Lit(2, 8),
                        "Promotional/offer keywords (possible info harvesting)"),
                   k3, "info_gathering", Lit(1, 6))
        k4 == \/ kw \cap {"download", "setup"} # {}
              \/ \E suffix \in {".exe", ".zip", ".scr", ".msi"} : EndsWith(url, suffix)
    IN  Cat(Rule(a12, k4, Lit(2, 45), "URL links to downloadable executable or archive"),
            k4, "malware", Lit(1, 12))

KeywordSignals(acc, f) ==
    KeywordRules(acc, {Lower(k) : k \in Range(Get(f, "keywords_found", <<>>))},
                 Lower(Get(f, "url", "")))

\* brand impersonation, for the brand the loop stops at
BrandReason(brand) == "Host contains brand name '" \o brand \o "' (possible impersonation)"

BrandRule(acc, brand) ==
    Cat(Rule(acc, brand # "", Lit(2, 40), BrandReason(brand)),
        brand # "", "credential_theft", Lit(1, 10))

BrandImpersonation(acc, f, order) ==
    BrandRule(acc, BrandScan(Lower(Get(f, "host", "")), order, 1))

\* structure signals
StructureSignals(acc, f) ==
    LET a15 == Rule(acc, Get(f, "param_count", 0) >= 5, Lit(2, 6),
                    "Many query parameters in URL")
        a16 == Rule(a15, GetFlag(f, "has_double_slash"), Lit(2, 5),
                    "Unusual double-slash in path")
        a17 == Rule(a16, Get(f, "redirect_count", 0) >= 3, Lit(2, 10),
                    "Multiple redirects before reaching content")
        a18 == Rule(a17, GetFlag(f, "meta_refresh"), Lit(2, 12),
                    "Meta refresh redirect detected")
        a19 == Rule(a18, Get(f, "iframe_count", 0) >= 2, Lit(2, 10),
                    "Page contains multiple iframes")
        a20 == Rule(a19, Get(f, "external_domain_count", 0) >= 5, Lit(2, 8),
                    "Page loads content from many external domains")
        a21 == Rule(a20, Get(f, "external_script_count", 0) >= 3, Lit(2, 8),
                    "Page loads several external scripts")
        js == Len(Get(f, "suspicious_js_keywords", <<>>)) > 0
        a22 == Cat(Rule(a21, js, Lit(2, 18), "Suspicious JavaScript patterns detected"),
                   js, "malware", Lit(1, 6))
    IN  Rule(a22, Truthy(Get(f, "word_count", 0)) /\ Get(f, "word_count", 0) < 80
                    /\ GetFlag(f, "has_login_form"),
             Lit(2, 6), "Sparse page text with login form")

\* suspicious TLD boosts
TldBoosts(acc, f) ==
    Cat(Cat(acc, Get(f, "tld", "") \in SuspiciousTlds, "credential_theft", Lit(2, 20)),
        Get(f, "tld", "") \in SuspiciousTlds, "malware", Lit(2, 12))

JointReason == "Indicators for both credential and card theft"

\* cat_scores["credential_theft"] > 0 and cat_scores["card_theft"] > 0
JointGuard(cat_scores) ==
    FGt(cat_scores["credential_theft"], Lit(1, 0)) /\ FGt(cat_scores["card_theft"], Lit(1, 0))

\* joint indicators
JointIndicators(acc) == Rule(acc, JointGuard(acc.cat), Lit(2, 10), JointReason)

\* the accumulators when the suspicious TLD boosts are reached
BeforeBoosts(f, order) ==
    StructureSignals(BrandImpersonation(KeywordSignals(
        FormSignals(BaseSignals(Zeroed, f), f), f), f, order), f)

\* the rules of score_features up to the clamp: score, reasons, cat_scores
Accumulate(f, order) == JointIndicators(TldBoosts(BeforeBoosts(f, order), f))

FallbackReason == "High overall risk without clear category: fallback to credential_theft"

\* the clamp left out
ClampNone(x) == x

\* max(0.0, min(x, 1.0))
Clamp(x) == FMax(Lit(1, 0), FMin(x, Lit(1, 10)))

\* the accumulators taken whole, max_possible = 1.0
NormalizeWhole(cat_scores) ==
    [c \in Range(CATEGORIES) |-> Round3(Clamp(cat_scores[c]))]

\* scaled = {c: round(max(0.0, min(v / max_possible, 1.0)), 3) ...}
Normalize(cat_scores) ==
    [c \in Range(CATEGORIES) |-> Round3(Clamp(FHalf(cat_scores[c])))]

\* the category threshold taken with > instead of >=
PredictedStrict(scaled) == SelectSeq(CATEGORIES, LAMBDA c : FGt(scaled[c], Lit(1, 5)))

\* only the strongest category kept
PredictedTop(scaled) ==
    SelectSeq(CATEGORIES, LAMBDA c : /\ FGeq(scaled[c], Lit(1, 5))
                                     /\ \A d \in Range(CATEGORIES) : FGeq(scaled[c], scaled[d]))

\* predicted = [c for c, v in scaled.items() if v >= 0.5]
Predicted(scaled) == SelectSeq(CATEGORIES, LAMBDA c : FGeq(scaled[c], Lit(1, 5)))

\* no fallback at all
FallbackNever(predicted, score) == FALSE

\* not predicted and score >= 0.65
Fallback(predicted, score) == Len(predicted) = 0 /\ FGeq(score, Lit(2, 65))

\* max(scaled.values())
MaxScaled(scaled) ==
    LET best == CHOOSE c \in Range(CATEGORIES) :
                    \A d \in Range(CATEGORIES) : FGeq(scaled[c], scaled[d])
    IN  scaled[best]

\* final_score = round(max(0.0, min(score * 0.65 + max(scaled) * 0.35, 1.0)), 3)
FinalScore(score, scaled) ==
    Round3(Clamp(FAdd(FMul(score, Lit(2, 65)), FMul(MaxScaled(scaled), Lit(2, 35)))))

\* the tiers cut with > instead of >=
RiskOfStrict(final_score) ==
    IF FGt(final_score, Lit(1, 7)) THEN "high"
    ELSE IF FGt(final_score, Lit(1, 4)) THEN "medium"
    ELSE "low"

RiskOf(final_score) ==
    IF FGeq(final_score, Lit(1, 7)) THEN "high"
    ELSE IF FGeq(final_score, Lit(1, 4)) THEN "medium"
    ELSE "low"

\* the dict returned, and the locals it was made from
Returned(acc, score, scaled, hits, fallback) ==
    [score |-> score, cat_scores |-> acc.cat, scaled |-> scaled,
     verdict |-> [risk |-> RiskOf(FinalScore(score, scaled)),
                  score |-> FinalScore(score, scaled),
                  predicted_categories |-> IF fallback THEN <<"credential_theft">> ELSE hits,
                  reasons |-> IF fallback THEN AddReason(acc.reasons, FallbackReason)
                              ELSE acc.reasons]]

Categorised(acc, score, scaled, hits) ==
    Returned(acc, score, scaled, hits, Fallback(hits, score))

Normalised(acc, score, scaled) == Categorised(acc, score, scaled, Predicted(scaled))

Clamped(acc) == Normalised(acc, Clamp(acc.score), Normalize(acc.cat))

\* one run of score_features: its locals at the return, and the dict returned
ScoreRun(f, order) == Clamped(Accumulate(f, order))

\* score_features(features), with BRAND_KEYWORDS iterated in the given order
score_features(f, order) == ScoreRun(f, order).verdict

-----------------------------------------------------------------------------
(***************************************************************************)
(* The SignalMaps a caller passes to score_features: a base map with at    *)
(* most MaxChanges keys removed, added or overwritten.                     *)
(***************************************************************************)
MaxChanges == 1

\* dict(base) after base.update(extra)
Merge(base, extra) ==
    [k \in DOMAIN base \cup DOMAIN extra |->
        IF k \in DOMAIN extra THEN extra[k] ELSE base[k]]

Restrict(f, keys) == [k \in keys |-> f[k]]

\* every key score_features reads, with its default
Defaults ==
    [url |-> "", host |-> "", tld |-> "", url_length |-> 0, param_count |-> 0,
     special_char_count |-> 0, suspicious_tld |-> FALSE, has_ip |-> FALSE,
     keywords_found |-> <<>>, host_entropy |-> Lit(1, 0), path_entropy |-> Lit(1, 0),
     has_double_slash |-> FALSE, redirect_count |-> 0, external_form_action |-> FALSE,
     external_domain_count |-> 0, external_script_count |-> 0, iframe_count |-> 0,
     meta_refresh |-> FALSE, suspicious_js_keywords |-> <<>>, word_count |-> 0,
     has_password_input |-> FALSE, has_card_inputs |-> FALSE, has_login_form |-> FALSE]

SignalKeys == DOMAIN Defaults

\* a map on which every rule of score_features fires
AllSignals ==
    [url |-> "http://paypal-bank.xyz/Setup.EXE", host |-> "paypal-bank.xyz", tld |-> "xyz",
     url_length |-> 81, param_count |-> 5, special_char_count |-> 6,
     suspicious_tld |-> TRUE, has_ip |-> TRUE,
     keywords_found |-> <<"verify", "login", "card", "free", "download">>,
     host_entropy |-> Lit(4, 32001), path_entropy |-> Lit(4, 40001),
     has_double_slash |-> TRUE, redirect_count |-> 3, external_form_action |-> TRUE,
     external_domain_count |-> 5, external_script_count |-> 3, iframe_count |-> 2,
     meta_refresh |-> TRUE, suspicious_js_keywords |-> <<"eval(">>, word_count |-> 79,
     has_password_input |-> TRUE, has_card_inputs |-> TRUE, has_login_form |-> TRUE]

\* scenario maps; the first three score exactly 0.700, 0.400 and 0.399
LoginByIp ==
    [has_ip |-> TRUE, has_password_input |-> TRUE, has_double_slash |-> TRUE, tld |-> "xyz"]

CrossDomainForm ==
    [special_char_count |-> 6, external_form_action |-> TRUE, has_double_slash |-> TRUE]

ScriptedRedirect ==
    [url_length |-> 81, meta_refresh |-> TRUE, suspicious_js_keywords |-> <<"eval(">>,
     tld |-> "xyz"]

\* a high base score and no category evidence
Uncategorised ==
    [has_ip |-> TRUE, suspicious_tld |-> TRUE, url_length |-> 81, special_char_count |-> 6]

\* card keywords on a suspicious TLD, no credential signal
CardKeywordsXyz == [keywords_found |-> <<"card">>, suspicious_tld |-> TRUE, tld |-> "xyz"]

BaseMaps ==
    {<<>>, Defaults, AllSignals, LoginByIp, CrossDomainForm, ScriptedRedirect,
     Uncategorised, CardKeywordsXyz}

\* the values tried for a key that is added or overwritten
Options ==
    [url |-> {"http://x.io/a.zip"},
     host |-> {"paypal.com", "PayPal-Bank.com"},
     tld |-> {"xyz", "com"},
     url_length |-> {80, 81},
     param_count |-> {5},
     special_char_count |-> {6},
     suspicious_tld |-> {TRUE},
     has_ip |-> {TRUE},
     keywords_found |-> {<<"verify", "login">>, <<"card">>, <<"free">>, <<"setup">>,
                         <<"LOGIN", "billing", "claim">>},
     host_entropy |-> {Lit(4, 32000), Lit(4, 32001)},
     path_entropy |-> {Lit(4, 40001)},
     has_double_slash |-> {TRUE},
     redirect_count |-> {3},
     external_form_action |-> {TRUE},
     external_domain_count |-> {5},
     external_script_count |-> {3},
     iframe_count |-> {2},
     meta_refresh |-> {TRUE},
     suspicious_js_keywords |-> {<<"eval(">>},
     word_count |-> {79, 80},
     has_password_input |-> {TRUE},
     has_card_inputs |-> {TRUE},
     has_login_form |-> {TRUE}]

\* base with at most k changes: a key removed, or added / overwritten
RECURSIVE Changed(_, _)
Changed(base, k) ==
    IF k = 0 THEN {base}
    ELSE LET prev == Changed(base, k - 1)
         IN  prev
             \cup {Restrict(m, DOMAIN m \ {key}) : <<m, key>> \in
                     {<<m, key>> \in prev \X SignalKeys : key \in DOMAIN m}}
             \cup UNION {{Merge(m, [x \in {key} |-> v]) : v \in Options[key]} :
                           <<m, key>> \in prev \X SignalKeys}

SignalMaps == UNION {Changed(base, MaxChanges) : base \in BaseMaps}

\* The orders in which an interpreter may iterate BRAND_KEYWORDS: the order
\* follows the string hashes, which are salted anew in every process.  Two
\* orders are kept, so that either of two brands can come first.
Reverse(seq) == [i \in 1..Len(seq) |-> seq[Len(seq) + 1 - i]]

BrandOrders == {BRAND_KEYWORDS, Reverse(BRAND_KEYWORDS)}

NoPage == [fetch |-> "none"]
NoLocals == [score |-> Lit(1, 0)]

\* a caller holds a SignalMap and has not called yet
Init ==
    /\ pc = "start"
    /\ hashOrder \in BrandOrders
    /\ rawUrl = ""
    /\ page = NoPage
    /\ features \in SignalMaps
    /\ locals = NoLocals
    /\ verdicts = <<>>

\* verdict = score_features(features), the limit-th call at most
Call(limit) ==
    /\ pc \in {"start", "scored"}
    /\ Len(verdicts) < limit
    /\ LET run == ScoreRun(features, hashOrder)
       IN  /\ verdicts' = Append(verdicts, run.verdict)
           /\ locals' = [score |-> run.score, cat_scores |-> run.cat_scores,
                         scaled |-> run.scaled]
    /\ pc' = "scored"
    /\ UNCHANGED <<hashOrder, rawUrl, page, features>>

Next == Call(1)

Spec == Init /\ [][Next]_vars

\* a new interpreter process: BRAND_KEYWORDS is built again under a new hash salt
Restart ==
    /\ pc = "scored"
    /\ hashOrder' \in BrandOrders \ {hashOrder}
    /\ UNCHANGED <<pc, rawUrl, page, features, locals, verdicts>>

MaxCalls == 2

NextRepeat == Call(MaxCalls) \/ Restart

\* the same SignalMap scored repeatedly, by one interpreter or by several
SpecRepeat == Init /\ [][NextRepeat]_vars

\* the boolean signals of a SignalMap
BoolSignals ==
    {"suspicious_tld", "has_ip", "has_double_slash", "meta_refresh", "has_password_input",
     "has_card_inputs", "external_form_action", "has_login_form"}

\* the caller sets one boolean signal that was false (or absent) and is about
\* to score the map again
Switch ==
    /\ pc = "scored"
    /\ Len(verdicts) = 1
    /\ \E key \in BoolSignals :
          /\ ~GetFlag(features, key)
          /\ features' = Merge(features, [x \in {key} |-> TRUE])
    /\ pc' = "start"
    /\ UNCHANGED <<hashOrder, rawUrl, page, locals, verdicts>>

NextSwitch == Call(MaxCalls) \/ Switch

MaxFlags == 2

\* a base map with at most MaxFlags of its boolean signals set in addition
FlagMaps ==
    {Merge(base, [x \in keys |-> TRUE]) :
        base \in BaseMaps, keys \in {S \in SUBSET BoolSignals : Cardinality(S) <= MaxFlags}}

InitSwitch ==
    /\ pc = "start"
    /\ hashOrder \in BrandOrders
    /\ rawUrl = ""
    /\ page = NoPage
    /\ features \in FlagMaps
    /\ locals = NoLocals
    /\ verdicts = <<>>

\* a SignalMap scored, one boolean signal switched on, and the map scored again
SpecSwitch == InitSwitch /\ [][NextSwitch]_vars

-----------------------------------------------------------------------------
(***************************************************************************)
(* Properties                                                              *)
(***************************************************************************)
Scored == pc = "scored" /\ Len(verdicts) >= 1
Last == verdicts[Len(verdicts)]
Thousandths(x) == Rescale(x, 3).n
IsZero(x) == x.n = 0 /\ x.e = 0
IsOne(x) == FGeq(x, Lit(1, 10)) /\ FGeq(Lit(1, 10), x)

\* C1: the score of every Verdict returned lies in [0.0, 1.0]
ScoreInUnitInterval ==
    \A i \in 1..Len(verdicts) :
        /\ FGeq(verdicts[i].score, Lit(1, 0))
        /\ FGeq(Lit(1, 10), verdicts[i].score)

\* every rule has fired and the score stands at the upper end, 1.0
AllSignalsScored == Scored /\ features = AllSignals /\ IsOne(Last.score)

\* C2: all Verdicts returned for the same SignalMap are identical
RepeatedCallsAgree ==
    \A i, j \in 1..Len(verdicts) : verdicts[i] = verdicts[j]

\* what each reason string starts with, in the order of the rules of score_features
RulePrefixes ==
    <<"Suspicious top-level domain",
      "URL uses an IP address instead of domain",
      "Unusually long URL",
      "Many special characters in URL",
      "High entropy in host",
      "High entropy in path",
      "Page contains password input",
      "Page contains card-related input fields",
      "Form submits to a different domain",
      "Suspicious keywords in URL: ",
      "Payment/card-related keywords: ",
      "Promotional/offer keywords",
      "URL links to downloadable executable or archive",
      "Host contains brand name '",
      "Many query parameters in URL",
      "Unusual double-slash in path",
      "Multiple redirects before reaching content",
      "Meta refresh redirect detected",
      "Page contains multiple iframes",
      "Page loads content from many external domains",
      "Page loads several external scripts",
      "Suspicious JavaScript patterns detected",
      "Sparse page text with login form",
      "Indicators for both credential and card theft",
      "High overall risk without clear category">>

IsRuleReason(reason) == \E i \in 1..Len(RulePrefixes) : StartsWith(reason, RulePrefixes[i])

RuleIndex(reason) == CHOOSE i \in 1..Len(RulePrefixes) : StartsWith(reason, RulePrefixes[i])

\* C4: reasons holds no string twice, and its entries stand in the order of the
\* rules that added them (base, form, keyword, brand, structure, joint, fallback)
ReasonsInRuleOrder ==
    \A k \in 1..Len(verdicts) :
        LET reasons == verdicts[k].reasons
        IN  /\ \A i \in 1..Len(reasons) : IsRuleReason(reasons[i])
            /\ \A i, j \in 1..Len(reasons) :
                 i < j => /\ reasons[i] # reasons[j]
                          /\ RuleIndex(reasons[i]) < RuleIndex(reasons[j])

\* every rule but the fallback has added its reason
AllReasonsGiven == Scored /\ features = AllSignals /\ Len(Last.reasons) = 24

\* C5: risk is decided by the score returned: high iff score >= 0.7, medium iff
\* 0.4 <= score < 0.7, low iff score < 0.4; the scenario maps that score 0.700,
\* 0.400 and 0.399 come out high, medium and low
RiskFollowsScore ==
    /\ \A i \in 1..Len(verdicts) :
         LET v == verdicts[i]
         IN  /\ v.risk = "high" <=> Thousandths(v.score) >= 700
             /\ v.risk = "medium" <=> (400 <= Thousandths(v.score) /\ Thousandths(v.score) < 700)
             /\ v.risk = "low" <=> Thousandths(v.score) < 400
    /\ Scored /\ features = LoginByIp =>
         Last.score = Lit(3, 700) /\ Last.risk = "high"
    /\ Scored /\ features = CrossDomainForm =>
         Last.score = Lit(3, 400) /\ Last.risk = "medium"
    /\ Scored /\ features = ScriptedRedirect =>
         Last.score = Lit(3, 399) /\ Last.risk = "low"

\* a score of exactly 0.700 has been returned as high
ScoredExactlySevenTenths ==
    Scored /\ features = LoginByIp /\ Thousandths(Last.score) = 700 /\ Last.risk = "high"

\* every key present holds its default
AllDefault(f) == \A k \in DOMAIN f : f[k] = Defaults[k]

\* C6: a map in which every key is missing or holds its default yields
\* score 0.0, risk low, no category and no reason
DefaultsScoreZero ==
    Scored /\ AllDefault(features) =>
        /\ IsZero(Last.score)
        /\ Last.risk = "low"
        /\ Last.predicted_categories = <<>>
        /\ Last.reasons = <<>>

\* the empty map has been scored
EmptyMapScored == Scored /\ DOMAIN features = {} /\ IsZero(Last.score)

\* the categories whose accumulator, halved and clamped, reaches 0.5
Reached(cat_scores) ==
    {c \in Range(CATEGORIES) : FGeq(Clamp(FHalf(cat_scores[c])), Lit(1, 5))}

\* C10: predicted_categories is a subset of the four categories and holds exactly
\* the categories whose normalized accumulator is >= 0.5, unless there is none and
\* the clamped base score is >= 0.65: then it is exactly credential_theft and the
\* fallback reason is the last reason
CategoriesFollowAccumulators ==
    Scored =>
        LET predicted == Last.predicted_categories
            hits == Reached(locals.cat_scores)
        IN  /\ Range(predicted) \subseteq Range(CATEGORIES)
            /\ IF hits = {} /\ FGeq(locals.score, Lit(2, 65))
               THEN /\ predicted = <<"credential_theft">>
                    /\ Len(Last.reasons) >= 1
                    /\ Last.reasons[Len(Last.reasons)] = FallbackReason
               ELSE /\ Range(predicted) = hits
                    /\ Len(predicted) = Cardinality(hits)

\* the fallback has been taken
FallbackTaken ==
    /\ Scored
    /\ Reached(locals.cat_scores) = {}
    /\ Last.predicted_categories = <<"credential_theft">>
    /\ Last.reasons[Len(Last.reasons)] = FallbackReason

\* C11: no rule's guard reads what an earlier rule wrote.  For the joint
\* credential+card rule: whether it fires is the same with and without what the
\* suspicious-TLD boost added to the category accumulators, so a map with card
\* keywords, a suspicious tld and no credential signal does not set it off.
JointRuleReadsSignalsOnly ==
    Scored =>
        /\ (JointReason \in Range(Last.reasons))
              <=> JointGuard(BeforeBoosts(features, hashOrder).cat)
        /\ features = CardKeywordsXyz => JointReason \notin Range(Last.reasons)

\* C12: the brand rule scans the brands in the order of the program text and
\* fires once, for the earliest brand that host contains without starting with
\* "<brand>.": the only brand reason names that brand, and the verdict is the
\* one a scan in that order gives (+0.40 and +1.0 credential_theft, once).
BrandRuleNamesEarliestBrand ==
    Scored =>
        LET first == BrandScan(Lower(Get(features, "host", "")), BRAND_KEYWORDS, 1)
            named == {b \in Range(BRAND_KEYWORDS) : BrandReason(b) \in Range(Last.reasons)}
        IN  /\ named = IF first = "" THEN {} ELSE {first}
            /\ Last = score_features(features, BRAND_KEYWORDS)

\* C14: a verdict of risk "high" always names at least one category.
HighRiskNamesCategory ==
    Scored /\ Last.risk = "high" => Len(Last.predicted_categories) > 0

\* a high verdict whose only category comes from the fallback
HighByFallback ==
    /\ Scored
    /\ Last.risk = "high"
    /\ Reached(locals.cat_scores) = {}
    /\ Last.predicted_categories = <<"credential_theft">>

\* C15: info_gathering is never predicted: its accumulator is 0.0, or 0.6 from
\* the one rule that feeds it, which normalizes to 0.3, below the threshold.
InfoGatheringNeverPredicted ==
    Scored =>
        /\ "info_gathering" \notin Range(Last.predicted_categories)
        /\ \/ IsZero(locals.cat_scores["info_gathering"])
               /\ IsZero(locals.scaled["info_gathering"])
           \/ /\ locals.cat_scores["info_gathering"] = Lit(1, 6)
              /\ Thousandths(locals.scaled["info_gathering"]) = 300

\* the promotional-keyword rule has fired, next to other keyword rules
InfoRuleFired ==
    /\ Scored
    /\ Thousandths(locals.scaled["info_gathering"]) = 300
    /\ Len(Last.predicted_categories) > 0

Tier(risk) == IF risk = "high" THEN 3 ELSE IF risk = "medium" THEN 2 ELSE 1

\* C16: switching one boolean signal from false to true never decreases the
\* score, never lowers the risk tier, and never removes a predicted category
\* unless the categories before the switch were the fallback.
MonotoneInBooleanSignals ==
    Len(verdicts) >= 2 =>
        /\ FGeq(verdicts[2].score, verdicts[1].score)
        /\ Tier(verdicts[2].risk) >= Tier(verdicts[1].risk)
        /\ \/ Range(verdicts[1].predicted_categories)
                 \subseteq Range(verdicts[2].predicted_categories)
           \/ /\ FallbackReason \in Range(verdicts[1].reasons)
              /\ verdicts[1].predicted_categories = <<"credential_theft">>

\* a switch after which the fallback category gives way to another one, at a
\* higher score
FallbackReplacedAfterSwitch ==
    /\ Len(verdicts) = 2
    /\ pc = "scored"
    /\ FallbackReason \in Range(verdicts[1].reasons)
    /\ "credential_theft" \notin Range(verdicts[2].predicted_categories)
    /\ FGt(verdicts[2].score, verdicts[1].score)

-----------------------------------------------------------------------------
(***************************************************************************)
(* url_features.py: parse_url and extract_features, with the part of       *)
(* urllib.parse that they run (urlsplit, urlparse, hostname, parse_qs).    *)
(* Positions are 1-based; 0 stands for Python's -1 of find / rfind.        *)
(***************************************************************************)
Letters == {Chr(UpperCase, i) : i \in 1..26} \cup {Chr(LowerCase, i) : i \in 1..26}
Digits == {Chr("0123456789", i) : i \in 1..10}
Whitespace == {" ", "\t", "\n", "\r"}

From(s, i) == SubSeq(s, i, Len(s))                 \* s[i-1:]
UpTo(s, i) == SubSeq(s, 1, i)                      \* s[:i]

MinOf(S) == CHOOSE i \in S : \A j \in S : i <= j
MaxIn(S) == CHOOSE i \in S : \A j \in S : i >= j

Occurrences(s, p, start) ==
    {i \in start..(Len(s) - Len(p) + 1) : SubSeq(s, i, i + Len(p) - 1) = p}

\* s.find(p, start - 1) + 1
Find(s, p, start) ==
    IF Occurrences(s, p, start) = {} THEN 0 ELSE MinOf(Occurrences(s, p, start))

\* s.rfind(p) + 1
RFind(s, p) == IF Occurrences(s, p, 1) = {} THEN 0 ELSE MaxIn(Occurrences(s, p, 1))

\* the first position from start on that holds one of the characters cs
FindAny(s, cs, start) ==
    LET hits == {i \in start..Len(s) : Chr(s, i) \in cs}
    IN  IF hits = {} THEN 0 ELSE MinOf(hits)

RECURSIVE LStrip(_)
LStrip(s) == IF Len(s) > 0 /\ Chr(s, 1) \in Whitespace THEN LStrip(From(s, 2)) ELSE s

RECURSIVE RStrip(_)
RStrip(s) ==
    IF Len(s) > 0 /\ Chr(s, Len(s)) \in Whitespace THEN RStrip(UpTo(s, Len(s) - 1)) ELSE s

Strip(s) == RStrip(LStrip(s))                      \* s.strip()

\* s[lo-1:hi] with every character of cs replaced by "", by halves
RECURSIVE RemoveRange(_, _, _, _)
RemoveRange(s, cs, lo, hi) ==
    IF lo > hi THEN ""
    ELSE IF lo = hi THEN (IF Chr(s, lo) \in cs THEN "" ELSE Chr(s, lo))
    ELSE RemoveRange(s, cs, lo, (lo + hi) \div 2)
             \o RemoveRange(s, cs, (lo + hi) \div 2 + 1, hi)

Remove(s, cs) == RemoveRange(s, cs, 1, Len(s))

\* s.split(sep), as a sequence
RECURSIVE Split(_, _)
Split(s, sep) ==
    IF Find(s, sep, 1) = 0 THEN <<s>>
    ELSE <<UpTo(s, Find(s, sep, 1) - 1)>> \o Split(From(s, Find(s, sep, 1) + Len(sep)), sep)

Count(s, c) == Cardinality({i \in 1..Len(s) : Chr(s, i) = c})      \* s.count(c)

\* urllib.parse: scheme_chars, uses_params, _UNSAFE_URL_BYTES_TO_REMOVE
SchemeChars == Letters \cup Digits \cup {"+", "-", "."}
UsesParams == {"", "ftp", "hdl", "prospero", "http", "imap", "https", "shttp", "rtsp",
               "rtspu", "sip", "sips", "mms", "sftp", "tel"}
UnsafeBytes == {"\t", "\r", "\n"}

\* The bracketed hosts that ipaddress.ip_address takes as IPv6 addresses, of
\* the bracketed hosts that occur in RawUrls; _check_bracketed_host raises
\* ValueError on every other one.
Ipv6Literals == {"::1"}

\* s up to the first c, all of s when there is none: s.partition(c)[0]
Before(s, c) == IF Find(s, c, 1) = 0 THEN s ELSE UpTo(s, Find(s, c, 1) - 1)

\* s after the first c, "" when there is none: s.partition(c)[2]
After(s, c) == IF Find(s, c, 1) = 0 THEN "" ELSE From(s, Find(s, c, 1) + 1)

\* the two ValueErrors of urlsplit: one bracket without the other, or a
\* bracketed host that is no IPv6 address
BadBrackets(netloc) ==
    \/ (Find(netloc, "[", 1) > 0) # (Find(netloc, "]", 1) > 0)
    \/ /\ Find(netloc, "[", 1) > 0
       /\ Find(netloc, "]", 1) > 0
       /\ Before(After(netloc, "["), "]") \notin Ipv6Literals

\* url.split("#", 1), then url.split("?", 1)
SplitResult(scheme, netloc, raises, beforeHash, fragment) ==
    [raises |-> raises,
     scheme |-> scheme,
     netloc |-> netloc,
     path |-> Before(beforeHash, "?"),
     query |-> After(beforeHash, "?"),
     fragment |-> fragment]

SplitRest(scheme, netloc, raises, url) ==
    SplitResult(scheme, netloc, raises, Before(url, "#"), After(url, "#"))

\* _splitnetloc(url, 2), delim being the first of "/?#" after the "//"
SplitNetlocAt(scheme, url, delim) ==
    IF delim = 0 THEN SplitRest(scheme, From(url, 3), BadBrackets(From(url, 3)), "")
    ELSE SplitRest(scheme, SubSeq(url, 3, delim - 1),
                   BadBrackets(SubSeq(url, 3, delim - 1)), From(url, delim))

SplitNetloc(scheme, url) ==
    IF StartsWith(url, "//") THEN SplitNetlocAt(scheme, url, FindAny(url, {"/", "?", "#"}, 3))
    ELSE SplitRest(scheme, "", FALSE, url)

\* the scheme is cut off at the first ":", at position i, when all before it are
\* scheme characters and the first is a letter
SplitSchemeAt(url, i) ==
    IF /\ i > 1
       /\ Chr(url, 1) \in Letters
       /\ \A j \in 1..(i - 1) : Chr(url, j) \in SchemeChars
    THEN SplitNetloc(Lower(UpTo(url, i - 1)), From(url, i + 1))
    ELSE SplitNetloc("", url)

SplitCleaned(url) == SplitSchemeAt(url, Find(url, ":", 1))

\* urlsplit(url): the SplitResult, or raises |-> TRUE for its ValueError
urlsplit(url) == SplitCleaned(Remove(LStrip(url), UnsafeBytes))

\* _splitparams(url)[0]
SplitParamsAt(url, i) == IF i = 0 THEN url ELSE UpTo(url, i - 1)

SplitParams(url) ==
    SplitParamsAt(url, IF RFind(url, "/") > 0 THEN Find(url, ";", RFind(url, "/"))
                       ELSE Find(url, ";", 1))

\* the params cut off the path of a SplitResult
WithoutParams(r) ==
    IF ~r.raises /\ r.scheme \in UsesParams /\ Find(r.path, ";", 1) > 0
    THEN [r EXCEPT !.path = SplitParams(r.path)]
    ELSE r

\* urlparse(url)
urlparse(url) == WithoutParams(urlsplit(url))

\* the host of hostinfo, lowered up to a "%"
HostLower(hostname) ==
    IF Find(hostname, "%", 1) = 0 THEN Lower(hostname)
    ELSE Lower(Before(hostname, "%")) \o From(hostname, Find(hostname, "%", 1))

\* _hostinfo[0]: inside the brackets, or up to the port
HostOf(hostinfo) ==
    HostLower(IF Find(hostinfo, "[", 1) > 0 THEN Before(After(hostinfo, "["), "]")
              ELSE Before(hostinfo, ":"))

\* ParseResult.hostname, "" for None
Hostname(netloc) == HostOf(From(netloc, RFind(netloc, "@") + 1))


\* printable ASCII by code, for unquote: codes 32 to 95, and codes 97 to 126
AsciiLow == " !\"#$%&'()*+,-./0123456789:;<=>?@ABCDEFGHIJKLMNOPQRSTUVWXYZ[\\]^_"
AsciiHigh == "abcdefghijklmnopqrstuvwxyz{|}~"
AsciiChr(code) == IF code <= 95 THEN Chr(AsciiLow, code - 31) ELSE Chr(AsciiHigh, code - 96)
HexDigits == "0123456789abcdef"
IsHex(c) == Find(HexDigits, LowerChr(c), 1) > 0
HexVal(c) == Find(HexDigits, LowerChr(c), 1) - 1

\* unquote(s); the escapes in RawUrls stand for printable ASCII other than code 96
RECURSIVE Unquote(_)
Unquote(s) ==
    IF Len(s) = 0 THEN ""
    ELSE IF Chr(s, 1) = "%" /\ Len(s) >= 3 /\ IsHex(Chr(s, 2)) /\ IsHex(Chr(s, 3))
              /\ 16 * HexVal(Chr(s, 2)) + HexVal(Chr(s, 3)) \in (32..126) \ {96}
         THEN AsciiChr(16 * HexVal(Chr(s, 2)) + HexVal(Chr(s, 3)))
                  \o Unquote(From(s, 4))
         ELSE Chr(s, 1) \o Unquote(From(s, 2))

\* s.replace("+", " ")
RECURSIVE PlusToSpace(_)
PlusToSpace(s) ==
    IF Len(s) = 0 THEN ""
    ELSE (IF Chr(s, 1) = "+" THEN " " ELSE Chr(s, 1)) \o PlusToSpace(From(s, 2))

\* the keys of parse_qs(query): the names of the fields name=value, split at
\* "&", whose value is not blank
QueryNames(query) ==
    {Unquote(PlusToSpace(UpTo(fld, Find(fld, "=", 1) - 1))) :
        fld \in {x \in Range(Split(query, "&")) :
                    Find(x, "=", 1) > 0 /\ Find(x, "=", 1) < Len(x)}}

\* round(v * log2(v) * 10^6) for v = 1 .. 64
XLog2X ==
    <<0, 2000000, 4754888, 8000000, 11609640, 15509775, 19651484, 24000000, 28529325,
      33219281, 38053748, 43019550, 48105716, 53302969, 58603359, 64000000, 69486868,
      75058650, 80710623, 86438562, 92238666, 98107496, 104041925, 110039100, 116096405,
      122211433, 128381963, 134605938, 140881449, 147206718, 153580086, 160000000,
      166465006, 172973737, 179524906, 186117300, 192749775, 199421246, 206130687,
      212877124, 219659632, 226477332, 233329384, 240214991, 247133389, 254083850,
      261065676, 268078200, 275120782, 282192809, 289293692, 296422865, 303579784,
      310763925, 317974784, 325211876, 332474731, 339762898, 347075940, 354413436,
      361774978, 369160171, 376568635, 384000000>>

\* the sum of v * log2(v) over the counts v of the distinct characters of s,
\* each character counted where it first occurs, over positions lo..hi by halves
RECURSIVE SumXLog2X(_, _, _)
SumXLog2X(s, lo, hi) ==
    IF lo > hi THEN 0
    ELSE IF lo = hi
         THEN IF \E j \in 1..(lo - 1) : Chr(s, j) = Chr(s, lo) THEN 0
              ELSE XLog2X[Count(s, Chr(s, lo))]
    ELSE SumXLog2X(s, lo, (lo + hi) \div 2) + SumXLog2X(s, (lo + hi) \div 2 + 1, hi)

\* i / j rounded to the nearest integer, ties to even
RoundDiv(i, j) ==
    IF 2 * (i % j) < j \/ (2 * (i % j) = j /\ (i \div j) % 2 = 0) THEN i \div j
    ELSE i \div j + 1

\* round(_entropy(s), 4): -sum p log2 p = (n log2 n - sum v log2 v) / n, in
\* ten-thousandths, as the double that round returns
Entropy4At(s, k) == IF Len(s) = 0 \/ k = 0 THEN Lit(1, 0) ELSE Lit(4, k)

Entropy4(s) ==
    Entropy4At(s, IF Len(s) = 0 THEN 0
                  ELSE RoundDiv(XLog2X[Len(s)] - SumXLog2X(s, 1, Len(s)), 100 * Len(s)))

\* _contains_ipv4(host): \d{1,3}(\.\d{1,3}){3} matches all of host
\* every group of exactly three digits
DottedQuadPadded(parts) ==
    /\ Len(parts) = 4
    /\ \A k \in 1..4 : /\ Len(parts[k]) = 3
                       /\ \A i \in 1..Len(parts[k]) : Chr(parts[k], i) \in Digits

DottedQuad(parts) ==
    /\ Len(parts) = 4
    /\ \A k \in 1..4 : /\ Len(parts[k]) \in 1..3
                       /\ \A i \in 1..Len(parts[k]) : Chr(parts[k], i) \in Digits

ContainsIpv4(host) == DottedQuad(Split(host, "."))

SUSPECT_KEYWORDS ==
    <<"login", "verify", "secure", "account", "update", "confirm",
      "bank", "payment", "billing", "card", "verify-account">>

SuspiciousTldsOfUrl == {"zip", "xyz", "top", "gq", "tk", "ml"}
PlainChars == Letters \cup Digits \cup {":", "/", ".", "?", "&", "=", "-", "_"}

ParsedFields(normalized, parsed) ==
    [raises |-> parsed.raises,
     normalized |-> normalized,
     path |-> parsed.path,
     query |-> parsed.query,
     host |-> Hostname(parsed.netloc),
     scheme |-> parsed.scheme]

ParseNormalized(normalized) == ParsedFields(normalized, urlparse(normalized))

\* parse_url(url); raises |-> TRUE when urlparse raises ValueError
parse_url(url) ==
    ParseNormalized(IF ~StartsWith(Strip(url), "http://") /\ ~StartsWith(Strip(url), "https://")
                    THEN "http://" \o Strip(url) ELSE Strip(url))

\* host.split(".")[-1].lower() for a host with a ".", else ""
TldOf(host) ==
    IF host # "" /\ Find(host, ".", 1) > 0 THEN Lower(From(host, RFind(host, ".") + 1)) ELSE ""

\* [kw for kw in SUSPECT_KEYWORDS if kw in url_lower]
KeywordsIn(url_lower) == SelectSeq(SUSPECT_KEYWORDS, LAMBDA kw : Contains(url_lower, kw))

\* normalized.split("://")[-1]
AfterLastScheme(normalized) ==
    IF RFind(normalized, "://") = 0 THEN normalized
    ELSE From(normalized, RFind(normalized, "://") + 3)

FeaturesWith(p, tld, keywords_found) ==
    [url |-> p.normalized,
     scheme |-> p.scheme,
     host |-> p.host,
     tld |-> tld,
     suspicious_tld |-> tld \in SuspiciousTldsOfUrl,
     has_ip |-> ContainsIpv4(p.host),
     url_length |-> Len(p.normalized),
     path_length |-> Len(p.path),
     param_count |-> Cardinality(QueryNames(p.query)),
     has_at |-> Find(p.normalized, "@", 1) > 0,
     has_double_slash |-> Find(AfterLastScheme(p.normalized), "//", 1) > 0,
     suspect_keyword_count |-> Len(keywords_found),
     keywords_found |-> keywords_found,
     host_entropy |-> Entropy4(p.host),
     path_entropy |-> Entropy4(p.path),
     dot_count_in_host |-> Count(p.host, "."),
     special_char_count |->
         Cardinality({i \in 1..Len(p.normalized) : Chr(p.normalized, i) \notin PlainChars})]

\* the features dict built from what parse_url returned
FeaturesOf(p) == FeaturesWith(p, TldOf(p.host), KeywordsIn(Lower(p.normalized)))

\* extract_features(url), where parse_url returns
extract_features(url) == FeaturesOf(parse_url(url))

\* The strings passed to extract_features: a prefix, a host and a tail each.
UrlPrefixes == {"", "http://", "https://", " ", "HTTP://"}

UrlHosts ==
    {"", "paypal.com.secure-account-update.xyz", "192.168.0.1", "[::1]", "[::1", "[",
     "user@paypal-bank.tk:8080", "Example.COM", "a]", "[x]"}

UrlTails ==
    {"", "/login", "/verify", "/a//b?x=1&y=2", "?u=http://y.com//a", "/#frag?q=1",
     "/p;v?a=&b=1&b=2&c&%62=3", " ", "/card\t", "/r?to=https://y.com",
     "/Verify-Account/update.exe?a+b=1&a b=2"}

RawUrls == {p \o h \o t : p \in UrlPrefixes, h \in UrlHosts, t \in UrlTails}

\* a caller holds a string and has not called extract_features yet
InitUrl ==
    /\ pc = "url"
    /\ hashOrder \in BrandOrders
    /\ rawUrl \in RawUrls
    /\ page = NoPage
    /\ features = <<>>
    /\ locals = NoLocals
    /\ verdicts = <<>>

\* the call of extract_features ends: p is what parse_url did
ExtractEnds(p) ==
    IF p.raises
    THEN pc' = "raised" /\ UNCHANGED features
    ELSE pc' = "start" /\ features' = FeaturesOf(p)

\* features = extract_features(rawUrl), or the ValueError of urlparse leaves it
Extract ==
    /\ pc = "url"
    /\ ExtractEnds(parse_url(rawUrl))
    /\ UNCHANGED <<hashOrder, rawUrl, page, locals, verdicts>>

NextUrl == Extract \/ Call(1)

\* extract_features on a string, then score_features on its output alone
SpecUrl == InitUrl /\ [][NextUrl]_vars

-----------------------------------------------------------------------------
(***************************************************************************)
(* Properties of extract_features                                          *)
(***************************************************************************)
Extracted == pc \in {"start", "scored"}

PaypalUrl == "paypal.com.secure-account-update.xyz/login"
LoginByIpUrl == "http://192.168.0.1/verify"

\* C3: for "paypal.com.secure-account-update.xyz/login" extract_features gives
\* suspicious_tld with tld "xyz" and "login" among keywords_found, and
\* score_features on that output gives the brand reason for "paypal",
\* credential_theft among predicted_categories, and risk "high"
PaypalScenarioIsHigh ==
    rawUrl = PaypalUrl /\ Extracted =>
        /\ features.suspicious_tld
        /\ features.tld = "xyz"
        /\ "login" \in Range(features.keywords_found)
        /\ Scored =>
             /\ "Host contains brand name 'paypal' (possible impersonation)"
                    \in Range(Last.reasons)
             /\ "credential_theft" \in Range(Last.predicted_categories)
             /\ Last.risk = "high"

\* the keys of the dict extract_features returns
FeatureKeys ==
    {"url", "scheme", "host", "tld", "suspicious_tld", "has_ip", "url_length",
     "path_length", "param_count", "has_at", "has_double_slash", "suspect_keyword_count",
     "keywords_found", "host_entropy", "path_entropy", "dot_count_in_host",
     "special_char_count"}

\* C7: extract_features raises for no input string, and what it returns holds
\* every documented key
ExtractNeverRaises ==
    /\ pc # "raised"
    /\ Extracted => DOMAIN features = FeatureKeys

\* C9: for "http://192.168.0.1/verify" extract_features gives has_ip, no
\* suspicious_tld and keywords_found = ["verify"]; score_features on that output
\* fires the has_ip rule and the keyword rule only, the clamped base score is
\* 0.30 + 0.30 = 0.60, and risk is medium or high
IpScenarioScoresSixTenths ==
    rawUrl = LoginByIpUrl /\ Extracted =>
        /\ features.has_ip
        /\ ~features.suspicious_tld
        /\ features.keywords_found = <<"verify">>
        /\ Scored =>
             /\ Last.reasons = <<"URL uses an IP address instead of domain",
                                 "Suspicious keywords in URL: verify">>
             /\ FGeq(locals.score, Lit(1, 6)) /\ FGeq(Lit(1, 6), locals.score)
             /\ Last.risk \in {"medium", "high"}

\* that URL has been extracted and scored
IpScenarioScored ==
    Scored /\ rawUrl = LoginByIpUrl /\ features.has_ip /\ Last.risk = "medium"

\* C13: has_double_slash is true exactly when "//" occurs in the normalized URL
\* after its scheme separator, the first "://", also when a further "://"
\* comes later in the URL.
DoubleSlashAfterScheme ==
    Extracted =>
        (features.has_double_slash
           <=> Find(From(features.url, Find(features.url, "://", 1) + 3), "//", 1) > 0)

-----------------------------------------------------------------------------
(***************************************************************************)
(* html_parser.py: analyze_html_for_forms.  A page is what requests.get    *)
(* does (a timeout, a connection error, or a response with its status, its *)
(* redirect history and its final URL) and the elements BeautifulSoup      *)
(* finds in the body.  A missing attribute is "".                          *)
(***************************************************************************)
None == "None"

SUSPICIOUS_JS_KEYWORDS == <<"eval(", "atob(", "document.write(", "unescape(", "fromCharCode">>

CardLike ==
    {"card", "cardnumber", "card_number", "cc-number", "cc_number", "ccnumber", "cvv",
     "cvc", "expiry", "exp"}

\* _host(url)
Host(url) == Hostname(urlparse(url).netloc)

\* the host of urljoin(base, url), for the SplitResult r of url: url itself
\* when it has a netloc or another scheme, else url on the netloc of base
JoinedAt(base, r) ==
    IF r.raises THEN [raises |-> TRUE, host |-> ""]
    ELSE [raises |-> FALSE,
          host |-> IF r.netloc # "" THEN Hostname(r.netloc)
                   ELSE IF r.scheme # "" /\ r.scheme # urlparse(base).scheme THEN ""
                   ELSE Host(base)]

\* _host(urljoin(base, url)), or the ValueError of urljoin
JoinedHost(base, url) ==
    IF url = "" THEN [raises |-> FALSE, host |-> Host(base)]
    ELSE JoinedAt(base, urlparse(url))

\* _is_external(base_host, url), for the host of url
IsExternal(base_host, target_host) ==
    target_host # "" /\ Lower(target_host) # Lower(base_host)

\* the dict analyze_html_for_forms starts from
ResultDefaults ==
    [has_login_form |-> FALSE, has_password_input |-> FALSE, has_card_inputs |-> FALSE,
     detected_fields |-> <<>>, form_count |-> 0, password_input_count |-> 0,
     hidden_input_count |-> 0, external_form_action |-> FALSE, page_title |-> None,
     word_count |-> 0, iframe_count |-> 0, script_tag_count |-> 0,
     external_script_count |-> 0, external_link_count |-> 0, external_domain_count |-> 0,
     meta_refresh |-> FALSE, redirect_count |-> 0, final_url |-> None, status_code |-> None,
     suspicious_js_keywords |-> <<>>, html_fetch_error |-> None]

\* except Exception: result["html_fetch_error"] = "request_failed"
Excepted(result) == [result EXCEPT !.html_fetch_error = "request_failed"]

Raised(result) == result.html_fetch_error # None

\* forms, iframes, scripts and the title are counted
Counted(result, soup) ==
    [result EXCEPT !.form_count = Len(soup.forms),
                   !.iframe_count = soup.iframes,
                   !.script_tag_count = Len(soup.scripts),
                   !.page_title = IF soup.title # "" THEN Strip(soup.title) ELSE @]

\* the anchors: urljoin on every href, then the external links and their domains
LinkedTo(result, base, hosts) ==
    IF \E i \in 1..Len(hosts) : hosts[i].raises THEN Excepted(result)
    ELSE [result EXCEPT
            !.external_link_count =
                Cardinality({i \in 1..Len(hosts) : IsExternal(Host(base), hosts[i].host)}),
            !.external_domain_count =
                Cardinality({Lower(hosts[i].host) :
                               i \in {j \in 1..Len(hosts) : IsExternal(Host(base), hosts[j].host)}})]

Linked(result, soup, base) ==
    LinkedTo(result, base, [i \in 1..Len(soup.anchors) |-> JoinedHost(base, soup.anchors[i])])

\* for keyword in SUSPICIOUS_JS_KEYWORDS: append it if in content and not yet there
RECURSIVE KeywordsOf(_, _, _)
KeywordsOf(found, content, i) ==
    IF i > Len(SUSPICIOUS_JS_KEYWORDS) THEN found
    ELSE KeywordsOf(IF Contains(content, SUSPICIOUS_JS_KEYWORDS[i])
                       /\ SUSPICIOUS_JS_KEYWORDS[i] \notin Range(found)
                    THEN Append(found, SUSPICIOUS_JS_KEYWORDS[i]) ELSE found,
                    content, i + 1)

\* for script in scripts, from the i-th on
RECURSIVE ScriptLoop(_, _, _, _)
ScriptLoop(result, scripts, i, base) ==
    IF i > Len(scripts) THEN result
    ELSE IF scripts[i].src # ""
    THEN IF JoinedHost(base, scripts[i].src).raises THEN Excepted(result)
         ELSE ScriptLoop(IF IsExternal(Host(base), JoinedHost(base, scripts[i].src).host)
                         THEN [result EXCEPT !.external_script_count = @ + 1] ELSE result,
                         scripts, i + 1, base)
    ELSE ScriptLoop([result EXCEPT !.suspicious_js_keywords =
                                       KeywordsOf(@, scripts[i].text, 1)],
                    scripts, i + 1, base)

Scripted(result, soup, base) ==
    IF Raised(result) THEN result ELSE ScriptLoop(result, soup.scripts, 1, base)

\* the meta refresh and the word count
Worded(result, soup) ==
    IF Raised(result) THEN result
    ELSE [result EXCEPT
            !.meta_refresh = \E i \in 1..Len(soup.metas) : Lower(soup.metas[i]) = "refresh",
            !.word_count = IF soup.words > 0 THEN soup.words ELSE @]

\* [inp.get(attr, "").lower() for inp in inputs if inp.get(attr)]
AttrsOf(present, attr) == [i \in 1..Len(present) |-> Lower(present[i][attr])]

Attrs(inputs, attr) == AttrsOf(SelectSeq(inputs, LAMBDA inp : inp[attr] # ""), attr)

CountOf(seq, v) == Cardinality({i \in 1..Len(seq) : seq[i] = v})

\* one form whose action has been joined: the flags, the counts and the names
FormFields(result, external, names, types, password, card) ==
    [result EXCEPT
        !.external_form_action = @ \/ external,
        !.has_password_input = @ \/ password,
        !.has_login_form = @ \/ password,
        !.password_input_count = @ + (IF password THEN CountOf(types, "password") ELSE 0),
        !.hidden_input_count = @ + CountOf(types, "hidden"),
        !.has_card_inputs = @ \/ card,
        !.detected_fields = @ \o names]

FormStep(result, external, names, types) ==
    FormFields(result, external, names, types,
               \/ "password" \in Range(types)
               \/ \E n \in Range(names) : Contains(n, "password"),
               \/ \E n \in Range(names) : \E cl \in CardLike : Contains(n, cl)
               \/ /\ \E t \in Range(types) : t \in {"tel", "number"}
                  /\ \E n \in Range(names) : Contains(n, "card"))

\* for form in forms, from the i-th on
RECURSIVE FormLoop(_, _, _, _)
FormLoop(result, forms, i, base) ==
    IF i > Len(forms) THEN result
    ELSE IF forms[i].action # "" /\ JoinedHost(base, forms[i].action).raises
    THEN Excepted(result)
    ELSE FormLoop(FormStep(result,
                           /\ forms[i].action # ""
                           /\ IsExternal(Host(base), JoinedHost(base, forms[i].action).host),
                           Attrs(forms[i].inputs, "name"), Attrs(forms[i].inputs, "type")),
                  forms, i + 1, base)

Formed(result, soup, base) ==
    IF Raised(result) THEN result ELSE FormLoop(result, soup.forms, 1, base)

\* list(dict.fromkeys(seq)): the first occurrences, in order
RECURSIVE Dedupe(_, _)
Dedupe(seq, kept) ==
    IF Len(seq) = 0 THEN kept
    ELSE Dedupe(Tail(seq), IF Head(seq) \in Range(kept) THEN kept ELSE Append(kept, Head(seq)))

Deduped(result) ==
    IF Raised(result) THEN result
    ELSE [result EXCEPT !.detected_fields = Dedupe(@, <<>>)]

\* the try block from BeautifulSoup(r.text, "html.parser") on
Souped(result, soup, base) ==
    Deduped(Formed(Worded(Scripted(Linked(Counted(result, soup), soup, base), soup, base),
                          soup), soup, base))

\* after result has taken status_code, final_url and redirect_count
Responded(result, got, base) ==
    IF got.status >= 400 THEN result
    ELSE IF ~got.soup.parses THEN Excepted(result)
    ELSE Souped(result, got.soup, base)

\* r.url: the URL requested, or the one the redirects ended at
FinalUrl(url, got) == IF got.url = "" THEN url ELSE got.url

\* analyze_html_for_forms(url), got being what requests.get does
analyze_html_for_forms(url, got) ==
    IF got.fetch # "response" THEN Excepted(ResultDefaults)
    ELSE Responded([ResultDefaults EXCEPT !.status_code = got.status,
                                          !.final_url = FinalUrl(url, got),
                                          !.redirect_count = got.redirects],
                   got, FinalUrl(url, got))

Input(name, type) == [name |-> name, type |-> type]

\* a body with no element
BlankPage ==
    [parses |-> TRUE, forms |-> <<>>, iframes |-> 0, scripts |-> <<>>, title |-> "",
     anchors |-> <<>>, metas |-> <<>>, words |-> 0]

\* a body on which BeautifulSoup raises
UnparsablePage == [BlankPage EXCEPT !.parses = FALSE]

LoginPage ==
    [BlankPage EXCEPT
       !.forms = <<[action |-> "/session",
                    inputs |-> <<Input("User", "text"), Input("Pass", "PASSWORD"),
                                 Input("csrf", "hidden"), Input("csrf", "hidden")>>]>>,
       !.title = " Sign in ",
       !.words = 40]

CardPage ==
    [BlankPage EXCEPT
       !.forms = <<[action |-> "https://pay.collect.example/c",
                    inputs |-> <<Input("CardNumber", "tel"), Input("cvv", "")>>]>>,
       !.words = 120]

BusyPage ==
    [BlankPage EXCEPT
       !.iframes = 2,
       !.scripts = <<[src |-> "https://cdn.one.example/a.js", text |-> ""],
                     [src |-> "//cdn.two.example/b.js", text |-> ""],
                     [src |-> "http://CDN.three.example/c.js", text |-> ""],
                     [src |-> "", text |-> "eval(atob(x)); eval(y)"],
                     [src |-> "/local.js", text |-> "unescape(z)"]>>,
       !.anchors = <<"http://a.example/", "http://b.example/", "http://c.example/",
                     "http://d.example/", "http://E.example/", "http://e.example/x",
                     "/about", "mailto:x@y.example", "">>,
       !.metas = <<"Content-Type", "Refresh">>,
       !.words = 200]

\* bodies with a URL on which urljoin raises ValueError
BadAnchorPage == [BusyPage EXCEPT !.anchors = <<"http://a.example/", "http://[">>]

BadScriptPage ==
    [BusyPage EXCEPT !.scripts = <<[src |-> "https://cdn.one.example/a.js", text |-> ""],
                                   [src |-> "", text |-> "document.write(s)"],
                                   [src |-> "//[", text |-> ""]>>]

BadActionPage ==
    [LoginPage EXCEPT !.forms = @ \o <<[action |-> "http://[::1", inputs |-> <<>>]>>,
                      !.metas = <<"refresh">>]

Soups ==
    {BlankPage, UnparsablePage, LoginPage, CardPage, BusyPage, BadAnchorPage,
     BadScriptPage, BadActionPage}

MaxRedirects == 3
Statuses == {200, 399, 400, 503}
Landing == "https://login.example.net/in"

\* what requests.get may do: url |-> "" is a response from the URL requested
Pages ==
    {[fetch |-> "timeout"], [fetch |-> "connection_error"]}
    \cup {[fetch |-> "response", status |-> st, redirects |-> h, url |-> u, soup |-> sp] :
            st \in Statuses, sp \in Soups,
            <<h, u>> \in {<<h, u>> \in (0..MaxRedirects) \X {"", Landing} : h > 0 \/ u = ""}}

PageUrls == {"http://example.com/", "https://cdn.one.example/start"}

\* a caller holds a URL, and the network will do one of Pages
InitPage ==
    /\ pc = "url"
    /\ hashOrder \in BrandOrders
    /\ rawUrl \in PageUrls
    /\ page \in Pages
    /\ features = <<>>
    /\ locals = NoLocals
    /\ verdicts = <<>>

\* features.update(analyze_html_for_forms(features["url"]))
Analyze ==
    /\ pc = "start"
    /\ page.fetch # "none"
    /\ "html_fetch_error" \notin DOMAIN features
    /\ features' = Merge(features, analyze_html_for_forms(features.url, page))
    /\ UNCHANGED <<pc, hashOrder, rawUrl, page, locals, verdicts>>

NextPage == Extract \/ Analyze \/ Call(1)

\* analyze_url: extract_features, analyze_html_for_forms, score_features
SpecPage == InitPage /\ [][NextPage]_vars

-----------------------------------------------------------------------------
(***************************************************************************)
(* Properties of analyze_html_for_forms                                    *)
(***************************************************************************)
Analyzed == "html_fetch_error" \in DOMAIN features

\* the fetch failed: requests.get raised, the status is >= 400, or an
\* exception was raised while the body was parsed
FetchFailed ==
    \/ page.fetch \in {"timeout", "connection_error"}
    \/ page.fetch = "response" /\ page.status >= 400
    \/ features.html_fetch_error = "request_failed"

\* the signals of analyze_html_for_forms that score_features reads
PageSignals ==
    {"redirect_count", "iframe_count", "external_script_count", "external_domain_count",
     "word_count", "meta_refresh", "has_password_input", "has_card_inputs",
     "has_login_form", "external_form_action", "suspicious_js_keywords"}

\* C8: after a failed fetch every signal of analyze_html_for_forms that the
\* scorer reads holds its neutral default
FailedFetchIsNeutral ==
    Analyzed /\ FetchFailed => \A k \in PageSignals : features[k] = Defaults[k]

=============================================================================
